---- MODULE Spec2Model ----
(***************************************************************************)
(* State-machine model of src/sms.py: the SMS class driving a SIM800 modem *)
(* over a serial transport with the AT command set.                        *)
(*                                                                         *)
(* Text (commands, response lines) is a sequence of one-character strings. *)
(* The transport is the environment: every readlines() returns a sequence  *)
(* of raw lines chosen from the lines a method can be answered with       *)
(* (LinesFor).  The transport delivers ASCII text                          *)
(* (spec section 6), on which decode('utf-8') maps each byte to the same   *)
(* character.                                                              *)
(***************************************************************************)
EXTENDS Integers, Sequences, FiniteSets, TLC

VARIABLES
    serial,     \* self._serial: "None" or "Open"; "Closed" once the process ended
    ready,      \* self._ready
    gsmOn,      \* level of output pin GSM_ON: "unset", "LOW" or "HIGH"; "INPUT"
                \* once IO.cleanup() released it
    gsmReset,   \* level of output pin GSM_RESET
    op,         \* the public method of SMS being executed (or last executed)
    arg,        \* its arguments
    pc,         \* position inside it: "write", "read", "rstSleep", "done", "raised"
                \* ("call": a function called on its own is about to run)
    phase,      \* the call site reached inside op (outer loop index i of turnOn)
    cmd,        \* cmd of the running sendATCmdWait*Resp call
    response,   \* response of the running sendATCmdWait*Resp call
    attempts,   \* attempts of the running sendATCmdWaitResp call
    i,          \* loop index i of sendATCmdWaitResp
    kind,       \* "resp" (sendATCmdWaitResp) or "return" (sendATCmdWaitReturnResp)
    result,     \* value returned (or exception raised) by op
    log,        \* history: transport and GPIO events of the current call of op
    statuses,   \* history: ATResp values returned to op by its exchanges
    lastLines,  \* history: the raw lines of the last readlines() of op
    handshake,  \* history: outcome of the last completed turnOn
    modemClock, \* the modem: the clock text set by the setTime just before, and
                \* history: the timestamp that setTime was given
    main,       \* the caller: a client of the class ("lib") or __main__ ("run",
                \* "exited") with the number of its statements started
    cleanups    \* number of runs of cleanup(), line 58

vars == <<serial, ready, gsmOn, gsmReset, op, arg, pc, phase, cmd, response,
          attempts, i, kind, result, log, statuses, lastLines, handshake,
          modemClock, main, cleanups>>

----------------------------------------------------------------------------
(* Bounds of the model *)

MaxLines == 2       \* most raw lines one readlines() returns
MaxAttempts == 3    \* largest attempts argument of a direct sendATCmdWaitResp call
MaxQueryLines == 3  \* most raw lines one readlines() of a query returns

(* Program constants *)

TurnOnCycles_OneMore == 2 + 1   \* fault: a third cycle
TurnOnCycles == 2     \* range(2) in turnOn
TurnOnAttempts == 5   \* attempts=5 in turnOn
TextFormat == 1       \* SMSMeesageFormat.Text
PulseTenths == 12     \* sleep(1.2) in reset, in tenths of a second
BootTenths == 50      \* sleep(5.) in reset, in tenths of a second

----------------------------------------------------------------------------
(* Characters and text *)

CR == "\r"
LF == "\n"
SUB == "^Z"   \* the single control character 0x1A
Whitespace == {" ", "\t", CR, LF}

OKLine == <<"O", "K">>
Prompt == <<">", " ">>
CMGSMarker == <<"+", "C", "M", "G", "S">>
AT == <<"A", "T">>
ATE0 == <<"A", "T", "E", "0">>
CCLKSet == <<"A", "T", "+", "C", "C", "L", "K", "=">>
CCLKGet == <<"A", "T", "+", "C", "C", "L", "K", "?">>
Digit(n) == CASE n = 0 -> "0" [] n = 1 -> "1" [] OTHER -> "?"
CMGF(format) == <<"A", "T", "+", "C", "M", "G", "F", "=">> \o <<Digit(format)>>
CMGS(phoneNumber) ==
    <<"A", "T", "+", "C", "M", "G", "S", "=", "\"">> \o phoneNumber \o <<"\"">>

(* ATResp *)
ErrorNoResponse == "ErrorNoResponse"
ErrorDifferentResponse == "ErrorDifferentResponse"
RespOK == "ATResp.OK"

(* What the transport can deliver as one raw line, and as one readlines() *)
RawLines ==
    { <<CR, LF>>,
      OKLine \o <<CR, LF>>,
      <<" ">> \o OKLine \o <<CR, LF>>,
      AT \o <<CR, LF>>,
      Prompt,
      CMGSMarker \o <<CR, LF>>,
      <<"E", "R", "R", "O", "R", CR, LF>> }

SeqsUpTo(S, n) == UNION { [1..k -> S] : k \in 0..n }
Reads == SeqsUpTo(RawLines, MaxLines)

(* Arguments a caller passes *)
PhoneNumbers == { <<"+", "4", "4">> }
Messages == { <<"H", "i">> }
ExecResponses == { OKLine, Prompt }
NoArg == [phoneNumber |-> <<>>, msg |-> <<>>]

----------------------------------------------------------------------------
(* str.strip(), str.isspace() and the list comprehensions of lines 110-111 *)

RECURSIVE LStrip(_)
LStrip(l) == IF l # <<>> /\ Head(l) \in Whitespace THEN LStrip(Tail(l)) ELSE l

RECURSIVE RStrip(_)
RStrip(l) ==
    IF l # <<>> /\ l[Len(l)] \in Whitespace THEN RStrip(SubSeq(l, 1, Len(l) - 1)) ELSE l

Strip(l) == RStrip(LStrip(l))

IsSpace(l) == Len(l) > 0 /\ \A k \in 1..Len(l) : l[k] \in Whitespace

Keep(l) == Len(l) > 0 /\ ~IsSpace(l)

RECURSIVE SelectKept(_)
SelectKept(ls) ==
    IF ls = <<>> THEN <<>>
    ELSE IF Keep(Head(ls)) THEN <<Head(ls)>> \o SelectKept(Tail(ls))
    ELSE SelectKept(Tail(ls))

FilterLines(raw) == SelectKept([k \in 1..Len(raw) |-> Strip(raw[k])])

----------------------------------------------------------------------------
(* sendATCmdWaitResp, lines 104-120 *)

\* fault: the loop runs once more than attempts
InRange_OffByOne(k, a) == k <= a

\* `for i in range(attempts)`: the body runs for index k
InRange(k, a) == k < a

\* fault: the first line is classified instead of the last
TerminalLine_First(lines) == lines[1]

\* line 114: line=lines[-1]
TerminalLine(lines) == lines[Len(lines)]

\* fault: a different response is retried instead of returned
RespOutcome_Retry(lines, resp) ==
    IF Len(lines) < 1 THEN "continue"
    ELSE IF lines[Len(lines)] = resp THEN RespOK
    ELSE "continue"

\* lines 113-119: the outcome of one attempt, "continue" or the ATResp returned
RespOutcome(lines, resp) ==
    IF Len(lines) < 1 THEN "continue"
    ELSE LET line == TerminalLine(lines) IN
         IF Len(line) = 0 \/ IsSpace(line) THEN "continue"
         ELSE IF line = resp THEN RespOK
         ELSE ErrorDifferentResponse

(* sendATCmdWaitReturnResp, lines 137-143: the pair (status, lines or None) *)

Pair(st, hasPayload, payload) ==
    [status |-> st, hasPayload |-> hasPayload, payload |-> payload]

\* fault: the terminal line stays in the payload
Popped_Keep(lines) == lines

\* lines 139, 142: lines.pop(-1) leaves the lines before the last
Popped(lines) == SubSeq(lines, 1, Len(lines) - 1)

ReturnOutcome(lines, resp) ==
    IF Len(lines) = 0 THEN Pair(ErrorNoResponse, FALSE, <<>>)
    ELSE LET r == lines[Len(lines)] IN
         IF Len(r) = 0 \/ IsSpace(r) THEN Pair(ErrorNoResponse, FALSE, <<>>)
         ELSE IF resp = r THEN Pair(RespOK, TRUE, Popped(lines))
         ELSE Pair(ErrorDifferentResponse, FALSE, <<>>)

(* Values returned by the public methods *)

Value(v) == [val |-> v, hasPayload |-> FALSE, payload |-> <<>>]
Bool(b) == Value(IF b THEN "True" ELSE "False")
NoResult == Value("None")
Tuple(p) == [val |-> p.status, hasPayload |-> p.hasPayload, payload |-> p.payload]

(* turnOn, lines 178-187: what one outer cycle does with the status *)

\* fault: a different response in the first cycle also resets
TurnOnBranch_ResetOnMismatch(status, cycle) ==
    IF status = RespOK THEN "ready"
    ELSE IF cycle = 0 THEN "reset"
    ELSE "next"

TurnOnBranch(status, cycle) ==
    IF status = RespOK THEN "ready"
    ELSE IF status = ErrorDifferentResponse THEN "next"
    ELSE IF cycle = 0 THEN "reset"
    ELSE "next"

(* setEchoOff, lines 195-197 *)

\* fault: the first exchange decides
EchoOffResult_First(first, second) == first = RespOK

EchoOffResult(first, second) == second = RespOK

(* sendSMS, lines 285-292 *)

\* fault: the result of setSMSMessageFormat is ignored
FormatAccepted_Always(status) == TRUE

\* line 285 and line 278: setSMSMessageFormat(...) is status==ATResp.OK
FormatAccepted(status) == status = RespOK

\* line 288
PromptAccepted(status) == status = RespOK

\* line 290: the text handed to sendATCmdWaitReturnResp
SMSPayload(msg) == msg \o <<CR, LF, SUB>>

\* the command texts of direct calls of sendATCmdWaitReturnResp
ExecCommands == {AT} \cup { SMSPayload(m) : m \in Messages }

\* line 292: _response is the list of payload lines (or None), "+CMGS" a str:
\* a list never compares equal to a str
ListEqualsStr(hasPayload, payload, text) == FALSE

\* line 292: `_response=="+CMGS" and status==Attempt.OK`; Attempt is not
\* defined, so evaluating the right operand raises NameError
SendSMSResult(p) ==
    IF ListEqualsStr(p.hasPayload, p.payload, CMGSMarker)
    THEN Value("NameError")
    ELSE Bool(FALSE)

----------------------------------------------------------------------------
(* Python built-ins used by the queries *)

Digits == <<"0", "1", "2", "3", "4", "5", "6", "7", "8", "9">>
IsDigit(c) == \E n \in 1..10 : Digits[n] = c
DigitVal(c) == (CHOOSE n \in 1..10 : Digits[n] = c) - 1

\* the character of s at position k, "" past its ends
At(s, k) == IF k \in 1..Len(s) THEN s[k] ELSE ""

RECURSIVE NatOf(_)
NatOf(t) ==
    IF t = <<>> THEN 0
    ELSE 10 * NatOf(SubSeq(t, 1, Len(t) - 1)) + DigitVal(t[Len(t)])

IsDigitChar(c) == IsDigit(c)

\* int(text): surrounding whitespace, one sign and single underscores between
\* digits are accepted, anything else raises ValueError (ok = FALSE)
PyInt(text) ==
    LET t == Strip(text)
        signed == t # <<>> /\ t[1] \in {"+", "-"}
        u == IF signed THEN Tail(t) ELSE t
        ok == /\ u # <<>>
              /\ \A k \in 1..Len(u) :
                    \/ IsDigit(u[k])
                    \/ u[k] = "_" /\ IsDigit(At(u, k - 1)) /\ IsDigit(At(u, k + 1))
        d == SelectSeq(u, IsDigitChar)
    IN [ok |-> ok,
        n |-> IF ~ok THEN 0 ELSE IF signed /\ t[1] = "-" THEN 0 - NatOf(d) ELSE NatOf(d)]

\* str.startswith
StartsWith(data, beginning) ==
    /\ Len(beginning) <= Len(data)
    /\ SubSeq(data, 1, Len(beginning)) = beginning

\* str.replace(old, ""): every occurrence of old, left to right, is removed
RECURSIVE Replace(_, _)
Replace(data, old) ==
    IF old = <<>> \/ data = <<>> THEN data
    ELSE IF StartsWith(data, old)
    THEN Replace(SubSeq(data, Len(old) + 1, Len(data)), old)
    ELSE <<Head(data)>> \o Replace(Tail(data), old)

\* str.split(sep) for a non-empty sep
RECURSIVE Split(_, _)
Split(data, sep) ==
    LET at == { k \in 1..(Len(data) - Len(sep) + 1) :
                  SubSeq(data, k, k + Len(sep) - 1) = sep }
    IN IF at = {} THEN <<data>>
       ELSE LET k == CHOOSE a \in at : \A b \in at : a <= b IN
            <<SubSeq(data, 1, k - 1)>>
                \o Split(SubSeq(data, k + Len(sep), Len(data)), sep)

\* list[index]: a negative index counts from the end, IndexError otherwise
PyIndex(list, index) ==
    LET n == Len(list) IN
    IF 0 <= index /\ index < n THEN [ok |-> TRUE, item |-> list[index + 1]]
    ELSE IF index < 0 /\ 0 - index <= n THEN [ok |-> TRUE, item |-> list[n + index + 1]]
    ELSE [ok |-> FALSE, item |-> <<>>]

(* parseReply, lines 152-156: the pair (ok, field) *)

ParseReply(data, beginning, divider, index) ==
    IF ~StartsWith(data, beginning) THEN [ok |-> FALSE, data |-> <<>>]
    ELSE LET parts == Split(Replace(data, beginning), divider)
             got == PyIndex(parts, index)
         IN IF got.ok THEN [ok |-> TRUE, data |-> got.item]
            ELSE [ok |-> FALSE, data |-> <<>>]

(* Values returned by the queries *)

Str(text) == [val |-> "str", hasPayload |-> FALSE, payload |-> <<text>>]
DateTime(t) == [val |-> "datetime", hasPayload |-> FALSE, payload |-> t]
ValueError == Value("ValueError")

\* fault: several payload lines are accepted and the first is used
OnePayloadLine_AtLeast(lines) == Len(lines) >= 1

\* lines 165, 213, 230: len(data)==1
OnePayloadLine(lines) == Len(lines) = 1

(* getSingleResponse, lines 163-168 *)

GetSingleResponse(p, beginning, divider, index) ==
    IF p.status # RespOK THEN NoResult
    ELSE IF ~OnePayloadLine(p.payload) THEN NoResult
    ELSE LET r == ParseReply(p.payload[1], beginning, divider, index) IN
         IF ~r.ok THEN NoResult ELSE Str(r.data)

(* getIMEI, lines 212-214, and getSIMCCID, lines 229-231 *)

GetRawLine(p) ==
    IF p.status = RespOK /\ OnePayloadLine(p.payload) THEN Str(p.payload[1])
    ELSE NoResult

(* RSSI.fromCSQ, lines 42-47; falling off the end returns None *)

\* fault: 31 is put in the bucket of 2..30
FromCSQ_WideThree(csq) ==
    IF csq = 99 THEN Value("ZeroBars")
    ELSE IF csq = 0 THEN Value("OneBar")
    ELSE IF csq = 1 THEN Value("TwoBars")
    ELSE IF 2 <= csq /\ csq <= 31 THEN Value("ThreeBars")
    ELSE NoResult

FromCSQ(csq) ==
    IF csq = 99 THEN Value("ZeroBars")
    ELSE IF csq = 0 THEN Value("OneBar")
    ELSE IF csq = 1 THEN Value("TwoBars")
    ELSE IF 2 <= csq /\ csq <= 30 THEN Value("ThreeBars")
    ELSE IF csq = 31 THEN Value("FourBars")
    ELSE NoResult

\* line 42 with a str argument: csq=int(csq)
FromCSQText(text) ==
    LET n == PyInt(text) IN IF n.ok THEN FromCSQ(n.n) ELSE ValueError

(* NetworkStatus(int(status)), line 240; lines 50-55 *)

NetworkStatusNames ==
    << "NotRegistered", "RegisteredHome", "Searching", "Denied", "Unknown",
       "RegisteredRoaming" >>

NetworkStatusOf(text) ==
    LET n == PyInt(text) IN
    IF n.ok /\ n.n \in 0..(Len(NetworkStatusNames) - 1)
    THEN Value(NetworkStatusNames[n.n + 1])
    ELSE ValueError

(* datetime.strftime and datetime.strptime with DATE_FMT, line 11.          *)
(* A timestamp is <<year, month, day, hour, minute, second, microsecond>>.  *)

TwoDigits(n) == <<Digits[(n \div 10) + 1], Digits[(n % 10) + 1]>>

Strftime(t) ==
    <<"\"">> \o TwoDigits(t[1] % 100) \o <<"/">> \o TwoDigits(t[2]) \o <<"/">>
        \o TwoDigits(t[3]) \o <<",">> \o TwoDigits(t[4]) \o <<":">>
        \o TwoDigits(t[5]) \o <<":">> \o TwoDigits(t[6]) \o <<"+", "0", "0", "\"">>

IsLeap(y) == (y % 4 = 0 /\ y % 100 # 0) \/ y % 400 = 0

DaysIn(y, m) ==
    IF m = 2 THEN (IF IsLeap(y) THEN 29 ELSE 28)
    ELSE IF m \in {4, 6, 9, 11} THEN 30
    ELSE 31

\* the largest value of a two-digit and the smallest of a one-digit match of
\* a directive: %m 1[0-2]|0[1-9]|[1-9], %d 3[0-1]|[1-2]\d|0[1-9]|[1-9]| [1-9],
\* %H 2[0-3]|[0-1]\d|\d, %M [0-5]\d|\d, %S 6[0-1]|[0-5]\d|\d
FieldMax(f) == CASE f = "m" -> 12 [] f = "d" -> 31 [] f = "H" -> 23
                 [] f = "M" -> 59 [] f = "S" -> 61
FieldMin(f) == IF f \in {"m", "d"} THEN 1 ELSE 0

\* one directive matched at position k of s: two digits when they form a
\* value of the directive, else one digit
Field(s, k, f) ==
    LET two == IsDigit(At(s, k)) /\ IsDigit(At(s, k + 1))
        v2 == 10 * DigitVal(At(s, k)) + DigitVal(At(s, k + 1))
    IN IF two /\ FieldMin(f) <= v2 /\ v2 <= FieldMax(f)
       THEN [ok |-> TRUE, val |-> v2, next |-> k + 2]
       ELSE IF f = "d" /\ At(s, k) = " " /\ IsDigit(At(s, k + 1))
               /\ DigitVal(At(s, k + 1)) >= 1
       THEN [ok |-> TRUE, val |-> DigitVal(At(s, k + 1)), next |-> k + 2]
       ELSE IF IsDigit(At(s, k)) /\ DigitVal(At(s, k)) >= FieldMin(f)
       THEN [ok |-> TRUE, val |-> DigitVal(At(s, k)), next |-> k + 1]
       ELSE [ok |-> FALSE, val |-> 0, next |-> k]

\* fault: the pivot is one year late
YearOf_LatePivot(yy) == IF yy <= 69 THEN 2000 + yy ELSE 1900 + yy

\* %y: two digits; 69..99 are 1969..1999 and 00..68 are 2000..2068
YearOf(yy) == IF yy <= 68 THEN 2000 + yy ELSE 1900 + yy

\* the literal text lit at position k of s
Lit(s, k, lit) == \A j \in 1..Len(lit) : At(s, k + j - 1) = lit[j]

Strptime(s) ==
    LET yok == Lit(s, 1, <<"\"">>) /\ IsDigit(At(s, 2)) /\ IsDigit(At(s, 3))
                 /\ Lit(s, 4, <<"/">>)
        m == Field(s, 5, "m")
        d == Field(s, m.next + 1, "d")
        hh == Field(s, d.next + 1, "H")
        mm == Field(s, hh.next + 1, "M")
        ss == Field(s, mm.next + 1, "S")
        ok == /\ yok
              /\ m.ok /\ Lit(s, m.next, <<"/">>)
              /\ d.ok /\ Lit(s, d.next, <<",">>)
              /\ hh.ok /\ Lit(s, hh.next, <<":">>)
              /\ mm.ok /\ Lit(s, mm.next, <<":">>)
              /\ ss.ok /\ Lit(s, ss.next, <<"+", "0", "0", "\"">>)
              /\ Len(s) = ss.next + 3
    IN IF ~ok THEN ValueError
       ELSE LET y == YearOf(10 * DigitVal(s[2]) + DigitVal(s[3])) IN
            IF d.val <= DaysIn(y, m.val) /\ ss.val <= 59
            THEN DateTime(<<y, m.val, d.val, hh.val, mm.val, ss.val, 0>>)
            ELSE ValueError

(* The queries, lines 199-263: the value made from the pair p *)

CEERPrefix == <<"+", "C", "E", "E", "R", ":", " ">>
RevisionPrefix == <<"R", "e", "v", "i", "s", "i", "o", "n">>
CREGPrefix == <<"+", "C", "R", "E", "G", ":", " ">>
CSQPrefix == <<"+", "C", "S", "Q", ":", " ">>
CCLKPrefix == <<"+", "C", "C", "L", "K", ":", " ">>

QueryCmd(name) ==
    CASE name = "getLastError" -> <<"A", "T", "+", "C", "E", "E", "R">>
      [] name = "getIMEI" -> <<"A", "T", "+", "G", "S", "N">>
      [] name = "getVersion" -> <<"A", "T", "+", "C", "G", "M", "R">>
      [] name = "getSIMCCID" -> <<"A", "T", "+", "C", "C", "I", "D">>
      [] name = "getNetworkStatus" -> <<"A", "T", "+", "C", "R", "E", "G", "?">>
      [] name = "getRSSI" -> <<"A", "T", "+", "C", "S", "Q">>
      [] name = "getTime" -> CCLKGet

QueryResult(name, p) ==
    CASE name = "getLastError" -> GetSingleResponse(p, CEERPrefix, <<",">>, 0)
      [] name = "getIMEI" -> GetRawLine(p)
      [] name = "getVersion" -> GetSingleResponse(p, RevisionPrefix, <<":">>, 1)
      [] name = "getSIMCCID" -> GetRawLine(p)
      [] name = "getNetworkStatus" ->
            LET status == GetSingleResponse(p, CREGPrefix, <<",">>, 1) IN
            IF status = NoResult THEN status ELSE NetworkStatusOf(status.payload[1])
      [] name = "getRSSI" ->
            LET csq == GetSingleResponse(p, CSQPrefix, <<",">>, 0) IN
            IF csq = NoResult THEN csq ELSE FromCSQText(csq.payload[1])
      [] name = "getTime" ->
            LET time == GetSingleResponse(p, CCLKPrefix, <<"'">>, 0) IN
            IF time = NoResult THEN time ELSE Strptime(time.payload[1])

QueryOps ==
    {"getLastError", "getIMEI", "getVersion", "getSIMCCID", "getNetworkStatus",
     "getRSSI", "getTime"}

(* What the transport can deliver to each method *)

Ended(text) == text \o <<CR, LF>>
ErrorLine == <<"E", "R", "R", "O", "R">>
SampleClock ==
    << "\"", "2", "4", "/", "0", "1", "/", "0", "1", ",", "1", "2", ":", "0", "0",
       ":", "0", "0", "+" >>

\* the answer of the modem to AT+CCLK?: the text set by the setTime just
\* before, else a clock of its own
ClockLine(clock) ==
    CCLKPrefix \o (IF clock.text # <<>> THEN clock.text
                   ELSE SampleClock \o <<"0", "0", "\"">>)

LinesFor(name, clock) ==
    CASE name \in {"getIMEI", "getSIMCCID"} ->
            { <<CR, LF>>, Ended(OKLine), Ended(<<"8", "6">>), Ended(ErrorLine) }
      [] name = "getLastError" ->
            { Ended(OKLine), Ended(CEERPrefix \o <<"x", ",", "y">>),
              Ended(CSQPrefix \o <<"3", ",", "0">>), Ended(ErrorLine) }
      [] name = "getVersion" ->
            { Ended(OKLine), Ended(RevisionPrefix \o <<":", "1", "4">>),
              Ended(RevisionPrefix), Ended(ErrorLine) }
      [] name = "getNetworkStatus" ->
            { Ended(OKLine), Ended(CREGPrefix \o <<"0", ",", "1">>),
              Ended(CREGPrefix \o <<"0", ",", "7">>),
              Ended(CREGPrefix \o <<"0", ",", "x">>), Ended(CREGPrefix \o <<"0">>) }
      [] name = "getRSSI" ->
            { Ended(OKLine), Ended(CSQPrefix \o <<"3", "1", ",", "0">>),
              Ended(CSQPrefix \o <<"3", "2", ",", "0">>),
              Ended(CSQPrefix \o <<"x", ",", "0">>) }
      [] name = "getTime" ->
            { Ended(OKLine), Ended(ClockLine(clock)),
              Ended(CCLKPrefix \o SampleClock \o <<"0", "4", "\"">>),
              Ended(ErrorLine) }
      [] name = "setTime" -> { <<CR, LF>>, Ended(OKLine), Ended(ErrorLine) }
      [] OTHER -> RawLines

ReadsFor(name, clock) ==
    SeqsUpTo(LinesFor(name, clock),
             IF name \in QueryOps THEN MaxQueryLines ELSE MaxLines)

(* Timestamps a caller passes to setTime *)

Years == {1968, 1969, 2024, 2068, 2069}
Timestamps ==
    { <<y>> \o rest : y \in Years,
                      rest \in { <<1, 1, 0, 0, 0, 0>>, <<12, 31, 23, 59, 59, 999999>> } }

----------------------------------------------------------------------------
(* History events *)

Ev(e, data, n) == [e |-> e, data |-> data, n |-> n]

\* what a read showed, in the words of the specification: the last non-blank
\* line, trimmed, or the empty text when every line is blank
SpecTrim(l) ==
    LET nz == { k \in 1..Len(l) : l[k] \notin Whitespace } IN
    IF nz = {} THEN <<>>
    ELSE SubSeq(l, CHOOSE a \in nz : \A b \in nz : a <= b,
                   CHOOSE a \in nz : \A b \in nz : a >= b)

SpecTerminal(raw) ==
    LET nz == { k \in 1..Len(raw) : SpecTrim(raw[k]) # <<>> } IN
    IF nz = {} THEN <<>>
    ELSE SpecTrim(raw[CHOOSE a \in nz : \A b \in nz : a >= b])

----------------------------------------------------------------------------
(* The caller: lines 299-315 of __main__, one method call per statement *)

MainProgram ==
    << "setup", "turnOn", "setEchoOff", "getIMEI", "getVersion", "getSIMCCID",
       "getLastError", "getNetworkStatus", "getRSSI", "getTime", "setTime",
       "getTime", "sendSMS", "getLastError" >>

\* the clock of the modem is not known
NoClock == [text |-> <<>>, from |-> <<>>]

(* The state after construction, lines 61-66 *)

Init ==
    /\ serial = "None"
    /\ ready = FALSE
    /\ gsmOn = "unset"
    /\ gsmReset = "unset"
    /\ op = "__init__"
    /\ arg = NoArg
    /\ pc = "done"
    /\ phase = 0
    /\ cmd = <<>>
    /\ response = <<>>
    /\ attempts = 0
    /\ i = 0
    /\ kind = "resp"
    /\ result = NoResult
    /\ log = <<>>
    /\ statuses = <<>>
    /\ lastLines = <<>>
    /\ handshake = "none"
    /\ modemClock = NoClock
    /\ main = [mode |-> "lib", at |-> 0]
    /\ cleanups = 0

\* the session is single-threaded: a method is called when none is running
Idle == pc \in {"done", "raised"}

(* Control transfers inside a method *)

Frame(p, ph, c, r, a, k, n, res, lg) ==
    /\ pc' = p
    /\ phase' = ph
    /\ cmd' = c
    /\ response' = r
    /\ attempts' = a
    /\ kind' = k
    /\ i' = n
    /\ result' = res
    /\ log' = lg

\* enter sendATCmdWaitResp / sendATCmdWaitReturnResp at call site ph
Begin(ph, c, r, a, k, lg) == Frame("write", ph, c, r, a, k, 0, NoResult, lg)

\* op returns res
Finish(res, lg) == Frame("done", phase, cmd, response, attempts, kind, i, res, lg)

\* op ends with exception name
Raise(name, lg) ==
    Frame("raised", phase, cmd, response, attempts, kind, i, Value(name), lg)

\* __main__ ends: an exception was raised (it is caught nowhere), exit(1) of
\* lines 301-302 after a False turnOn or setEchoOff, or line 315 is done
MainEnds ==
    /\ Idle
    /\ \/ pc = "raised"
       \/ op \in {"turnOn", "setEchoOff"} /\ result = Bool(FALSE)
       \/ main.at = Len(MainProgram)

\* a method starts: the histories of the previous call are dropped
Enter(name, a) ==
    /\ Idle
    /\ main.mode # "exited"
    /\ main.mode = "run" =>
          /\ ~MainEnds
          /\ MainProgram[main.at + 1] = name
    /\ main' = IF main.mode = "run" THEN [main EXCEPT !.at = main.at + 1] ELSE main
    /\ cleanups' = cleanups
    /\ modemClock' = IF name = "getTime" THEN modemClock ELSE NoClock
    /\ op' = name
    /\ arg' = a
    /\ statuses' = <<>>
    /\ lastLines' = <<>>

----------------------------------------------------------------------------
(* setup, lines 74-82 *)

Setup ==
    /\ Enter("setup", NoArg)
    /\ serial = "None"
    /\ gsmOn' = "LOW"
    /\ gsmReset' = "LOW"
    /\ serial' = "Open"
    /\ Finish(NoResult, <<Ev("setup", <<>>, 0)>>)
    /\ UNCHANGED <<ready, handshake>>

(* reset, lines 84-93; IO.output on a pin that was not set up raises *)

\* lines 90-91
ResetHigh(lg) ==
    Append(Append(Append(lg, Ev("reset", <<>>, 0)), Ev("high", <<>>, 0)),
           Ev("sleep", <<>>, PulseTenths))

\* fault: the line is left high
ResetLowLevel_High == "HIGH"

\* line 92: IO.output(GSM_ON, IO.LOW)
ResetLowLevel == "LOW"

\* lines 92-93
ResetLow(lg) == Append(Append(lg, Ev("low", <<>>, 0)), Ev("sleep", <<>>, BootTenths))

CallReset ==
    /\ Enter("reset", NoArg)
    /\ IF gsmOn = "unset"
       THEN /\ Raise("RuntimeError", <<>>)
            /\ gsmOn' = gsmOn
       ELSE /\ Frame("rstSleep", 0, <<>>, <<>>, 0, kind, 0, NoResult, ResetHigh(<<>>))
            /\ gsmOn' = "HIGH"
    /\ UNCHANGED <<serial, ready, gsmReset, handshake>>

\* turnOn, line 176: the next iteration of `for i in range(2)`, or line 188
TurnOnNextCycle(lg) ==
    IF InRange(phase + 1, TurnOnCycles)
    THEN /\ Begin(phase + 1, AT, OKLine, TurnOnAttempts, "resp", lg)
         /\ handshake' = handshake
    ELSE /\ Finish(Bool(FALSE), lg)
         /\ handshake' = "exhausted"

\* lines 92-93 and the return to the caller
ResetSleepDone ==
    /\ pc = "rstSleep"
    /\ gsmOn' = ResetLowLevel
    /\ IF op = "turnOn"
       THEN TurnOnNextCycle(ResetLow(log))
       ELSE /\ Finish(NoResult, ResetLow(log))
            /\ handshake' = handshake
    /\ UNCHANGED <<serial, ready, gsmReset, op, arg, statuses, lastLines,
                   modemClock, main, cleanups>>

----------------------------------------------------------------------------
(* The callers of the command exchange *)

\* an exchange called before setup: self._serial is None, line 100 / 127
\* raises AttributeError
Exchange(ph, c, r, a, k) ==
    IF serial = "None" THEN Raise("AttributeError", <<>>)
    ELSE Begin(ph, c, r, a, k, <<>>)

\* a direct call of sendATCmdWaitResp; with attempts = 0 the loop body never
\* runs and line 120 returns ErrorNoResponse
CallSendATCmdWaitResp(r, a) ==
    /\ Enter("sendATCmdWaitResp", NoArg)
    /\ IF serial # "None" /\ ~InRange(0, a)
       THEN Frame("done", 0, AT, r, a, "resp", 0, Value(ErrorNoResponse), <<>>)
       ELSE Exchange(0, AT, r, a, "resp")
    /\ UNCHANGED <<serial, ready, gsmOn, gsmReset, handshake>>

\* a direct call of sendATCmdWaitReturnResp, with the command text AT or with
\* the text line 290 passes
CallSendATCmdWaitReturnResp(c, r) ==
    /\ Enter("sendATCmdWaitReturnResp", NoArg)
    /\ Exchange(0, c, r, 1, "return")
    /\ UNCHANGED <<serial, ready, gsmOn, gsmReset, handshake>>

\* turnOn, lines 176-177
CallTurnOn ==
    /\ Enter("turnOn", NoArg)
    /\ Exchange(0, AT, OKLine, TurnOnAttempts, "resp")
    /\ UNCHANGED <<serial, ready, gsmOn, gsmReset, handshake>>

\* setEchoOff, line 195
CallSetEchoOff ==
    /\ Enter("setEchoOff", NoArg)
    /\ Exchange(1, ATE0, OKLine, 1, "resp")
    /\ UNCHANGED <<serial, ready, gsmOn, gsmReset, handshake>>

\* sendSMS, line 285 (setSMSMessageFormat, line 277)
CallSendSMS(phoneNumber, msg) ==
    /\ Enter("sendSMS", [phoneNumber |-> phoneNumber, msg |-> msg])
    /\ Exchange(1, CMGF(TextFormat), OKLine, 1, "resp")
    /\ UNCHANGED <<serial, ready, gsmOn, gsmReset, handshake>>

\* the queries, lines 204, 212, 221, 229, 238, 247, 261
CallQuery(name) ==
    /\ Enter(name, NoArg)
    /\ Exchange(1, QueryCmd(name), OKLine, 1, "return")
    /\ UNCHANGED <<serial, ready, gsmOn, gsmReset, handshake>>

\* setTime, lines 269-270
CallSetTime(t) ==
    /\ Enter("setTime", [time |-> t])
    /\ Exchange(1, CCLKSet \o Strftime(t), OKLine, 1, "resp")
    /\ UNCHANGED <<serial, ready, gsmOn, gsmReset, handshake>>

(* What each caller does when its exchange returns p = (status, lines) *)

\* the queries: the value is returned, a ValueError is raised
QueryResume(p, lg) ==
    /\ LET res == QueryResult(op, p) IN
       IF res = ValueError THEN Raise("ValueError", lg) ELSE Finish(res, lg)
    /\ UNCHANGED <<ready, gsmOn, handshake>>

\* setTime, line 271
SetTimeResume(p, lg) ==
    /\ Finish(Bool(p.status = RespOK), lg)
    /\ UNCHANGED <<ready, gsmOn, handshake>>

\* turnOn, lines 178-188
TurnOnResume(p, lg) ==
    LET branch == TurnOnBranch(p.status, phase) IN
    IF branch = "ready"
    THEN /\ ready' = TRUE
         /\ handshake' = "ok"
         /\ gsmOn' = gsmOn
         /\ Finish(Bool(TRUE), lg)
    ELSE IF branch = "reset"
    THEN /\ ready' = ready
         /\ handshake' = handshake
         /\ IF gsmOn = "unset"
            THEN /\ Raise("RuntimeError", lg)
                 /\ gsmOn' = gsmOn
            ELSE /\ Frame("rstSleep", phase, cmd, response, attempts, kind, i,
                          NoResult, ResetHigh(lg))
                 /\ gsmOn' = "HIGH"
    ELSE /\ ready' = ready
         /\ gsmOn' = gsmOn
         /\ TurnOnNextCycle(lg)

\* setEchoOff, lines 195-197
SetEchoOffResume(p, lg) ==
    /\ IF phase = 1
       THEN Begin(2, ATE0, OKLine, 1, "resp", lg)
       ELSE Finish(Bool(EchoOffResult(statuses[1], p.status)), lg)
    /\ UNCHANGED <<ready, gsmOn, handshake>>

\* sendSMS, lines 285-292
SendSMSResume(p, lg) ==
    /\ IF phase = 1
       THEN IF ~FormatAccepted(p.status) THEN Finish(Bool(FALSE), lg)
            ELSE Begin(2, CMGS(arg.phoneNumber), Prompt, 1, "resp", lg)
       ELSE IF phase = 2
       THEN IF ~PromptAccepted(p.status) THEN Finish(Bool(FALSE), lg)
            ELSE Begin(3, SMSPayload(arg.msg), OKLine, 1, "return", lg)
       ELSE LET res == SendSMSResult(p) IN
            IF res.val = "NameError" THEN Raise("NameError", lg) ELSE Finish(res, lg)
    /\ UNCHANGED <<ready, gsmOn, handshake>>

\* the exchange returns p to the method that called it
Return(p, lg) ==
    /\ statuses' = Append(statuses, p.status)
    /\ CASE op = "turnOn" -> TurnOnResume(p, lg)
         [] op = "setEchoOff" -> SetEchoOffResume(p, lg)
         [] op = "sendSMS" -> SendSMSResume(p, lg)
         [] op \in QueryOps -> QueryResume(p, lg)
         [] op = "setTime" -> SetTimeResume(p, lg)
         [] OTHER -> /\ Finish(IF kind = "resp" THEN Value(p.status) ELSE Tuple(p), lg)
                     /\ UNCHANGED <<ready, gsmOn, handshake>>

----------------------------------------------------------------------------
(* The command exchange *)

\* fault: the command is written bare
Encoded_Bare(c) == c

\* lines 106 and 130: cmd.encode('utf-8')+b'\r', the text being ASCII
Encoded(c) == c \o <<CR>>

\* lines 106-107 and 130-131: write cmd and a carriage return, flush
Write ==
    /\ pc = "write"
    /\ pc' = "read"
    /\ log' = Append(log, Ev("write", Encoded(cmd), 0))
    /\ lastLines' = <<>>
    /\ modemClock' = IF op = "setTime"
                     THEN [text |-> SubSeq(cmd, Len(CCLKSet) + 1, Len(cmd)),
                           from |-> arg.time]
                     ELSE modemClock
    /\ UNCHANGED <<serial, ready, gsmOn, gsmReset, op, arg, phase, cmd, response,
                   attempts, i, kind, result, statuses, handshake, main, cleanups>>

\* lines 109-120 and 132-143: readlines() delivers raw
Read(raw) ==
    /\ pc = "read"
    /\ lastLines' = raw
    /\ LET lines == FilterLines(raw)
           lg == Append(log, Ev("read", SpecTerminal(raw), 0))
       IN IF kind = "resp"
          THEN LET o == RespOutcome(lines, response) IN
               IF o = "continue"
               THEN IF InRange(i + 1, attempts)
                    THEN /\ Frame("write", phase, cmd, response, attempts, kind,
                                  i + 1, result, lg)
                         /\ UNCHANGED <<ready, gsmOn, handshake, statuses>>
                    ELSE Return(Pair(ErrorNoResponse, FALSE, <<>>), lg)
               ELSE Return(Pair(o, FALSE, <<>>), lg)
          ELSE Return(ReturnOutcome(lines, response), lg)
    /\ UNCHANGED <<serial, gsmReset, op, arg, modemClock, main, cleanups>>

Next ==
    \/ Setup
    \/ CallReset
    \/ ResetSleepDone
    \/ \E r \in ExecResponses, a \in 0..MaxAttempts : CallSendATCmdWaitResp(r, a)
    \/ \E c \in ExecCommands, r \in ExecResponses : CallSendATCmdWaitReturnResp(c, r)
    \/ CallTurnOn
    \/ CallSetEchoOff
    \/ \E n \in PhoneNumbers, m \in Messages : CallSendSMS(n, m)
    \/ \E name \in QueryOps : CallQuery(name)
    \/ \E t \in Timestamps : CallSetTime(t)
    \/ Write
    \/ \E raw \in ReadsFor(op, modemClock) : Read(raw)

Spec == Init /\ [][Next]_vars

TypeOK ==
    /\ serial \in {"None", "Open", "Closed"}
    /\ ready \in BOOLEAN
    /\ gsmOn \in {"unset", "LOW", "HIGH", "INPUT"}
    /\ gsmReset \in {"unset", "LOW", "HIGH", "INPUT"}
    /\ pc \in {"call", "write", "read", "rstSleep", "done", "raised"}
    /\ kind \in {"resp", "return"}
    /\ handshake \in {"none", "ok", "exhausted"}
    /\ lastLines \in ReadsFor(op, modemClock)
    /\ main.mode \in {"lib", "run", "exited"}
    /\ cleanups \in 0..1

----------------------------------------------------------------------------
(* Reading the history *)

WritesOf(lg) == { k \in 1..Len(lg) : lg[k].e = "write" }
ReadsOf(lg) == { k \in 1..Len(lg) : lg[k].e = "read" }
ResetsOf(lg) == { k \in 1..Len(lg) : lg[k].e = "reset" }
BlankRead(ev) == ev.e = "read" /\ ev.data = <<>>
WroteCmd(ev, c) == ev.e = "write" /\ ev.data = c \o <<CR>>

\* the log is write, read, write, read, ... of the command c
Alternates(lg, c) ==
    \A k \in 1..Len(lg) : IF k % 2 = 1 THEN WroteCmd(lg[k], c) ELSE lg[k].e = "read"

NonEmpty(l) == l # <<>>

\* the non-blank lines of a read, trimmed, in reading order
SpecNonBlank(raw) == SelectSeq([k \in 1..Len(raw) |-> SpecTrim(raw[k])], NonEmpty)

EchoThenOK == << AT \o <<CR, LF>>, OKLine \o <<CR, LF>> >>

----------------------------------------------------------------------------
\* C1: when every read of a sendATCmdWaitResp call shows no non-blank line,
\* the call returns ErrorNoResponse, and at its return the transport has seen
\* exactly `attempts` writes of the command, each followed by one read
\* (for attempts = 0: no write and no read).
C1_NoResponseAfterAllAttempts ==
    ( /\ op = "sendATCmdWaitResp"
      /\ pc = "done"
      /\ \A k \in ReadsOf(log) : BlankRead(log[k]) )
    => /\ result = Value(ErrorNoResponse)
       /\ Len(log) = 2 * attempts
       /\ Cardinality(WritesOf(log)) = attempts
       /\ Alternates(log, cmd)

C1_Witness ==
    /\ op = "sendATCmdWaitResp"
    /\ pc = "done"
    /\ attempts >= 2
    /\ \A k \in ReadsOf(log) : BlankRead(log[k])
    /\ Cardinality(WritesOf(log)) = attempts
    /\ lastLines # <<>>
    /\ result = Value(ErrorNoResponse)

\* C2: in sendATCmdWaitResp a write other than the first is made only right
\* after a read without non-blank line; the first read with a non-blank line,
\* at attempt k, ends the call with exactly k writes made, with
\* ErrorDifferentResponse when its terminal line differs from the expected
\* response; while the call is running every read so far was blank.
C2_RetryOnlyAfterEmptyRead ==
    op = "sendATCmdWaitResp" =>
        /\ \A k \in WritesOf(log) : k > 1 => BlankRead(log[k - 1])
        /\ pc \in {"write", "read"} => \A k \in ReadsOf(log) : BlankRead(log[k])
        /\ \A k \in ReadsOf(log) :
              ~BlankRead(log[k]) =>
                  /\ pc = "done"
                  /\ k = Len(log)
                  /\ Cardinality(WritesOf(log)) = k \div 2
                  /\ Alternates(log, cmd)
                  /\ k \div 2 <= attempts
                  /\ result.val \in {RespOK, ErrorDifferentResponse}
                  /\ log[k].data # response => result = Value(ErrorDifferentResponse)

C2_Witness ==
    /\ op = "sendATCmdWaitResp"
    /\ pc = "done"
    /\ attempts = MaxAttempts
    /\ Len(log) = 4
    /\ BlankRead(log[2])
    /\ ~BlankRead(log[4])
    /\ result = Value(ErrorDifferentResponse)

\* C3: a sendATCmdWaitResp call that read a non-blank line returns ATResp.OK
\* exactly when the last non-blank line of that read, trimmed, equals the
\* expected response; the lines "AT", "OK" with expected "OK" give ATResp.OK.
C3_ClassifiedByLastNonBlankLine ==
    ( /\ op = "sendATCmdWaitResp"
      /\ pc = "done"
      /\ SpecTerminal(lastLines) # <<>> )
    => /\ (result.val = RespOK) <=> (SpecTerminal(lastLines) = response)
       /\ (lastLines = EchoThenOK /\ response = OKLine) => result = Value(RespOK)

C3_Witness ==
    /\ op = "sendATCmdWaitResp"
    /\ pc = "done"
    /\ lastLines = EchoThenOK
    /\ response = OKLine
    /\ result = Value(RespOK)

\* the first outer cycle of turnOn ended with ErrorNoResponse: TurnOnAttempts
\* writes of AT, every one followed by a read without non-blank line
FirstCycleNoResponse(lg) ==
    /\ Len(lg) >= 2 * TurnOnAttempts
    /\ \A k \in 1..(2 * TurnOnAttempts) :
          IF k % 2 = 1 THEN WroteCmd(lg[k], AT) ELSE BlankRead(lg[k])

\* C4: within one turnOn call reset() is invoked if and only if the first
\* outer cycle ended with ErrorNoResponse (5 reads without non-blank line):
\* then exactly once, right after the fifth read, its pulse and boot wait
\* complete before the next write; there is no reset after a different
\* response nor in the second cycle.  Five empty reads followed by OK on the
\* first attempt of the second cycle give True, _ready = True and one reset.
C4_ResetOnlyAfterSilentFirstCycle ==
    op = "turnOn" =>
        /\ Cardinality(ResetsOf(log)) <= 1
        /\ \A k \in ResetsOf(log) :
              /\ FirstCycleNoResponse(log)
              /\ k = 2 * TurnOnAttempts + 1
              /\ \A w \in WritesOf(log) :
                    w > k => /\ w > k + 4
                             /\ log[k + 1].e = "high"
                             /\ log[k + 3].e = "low"
                             /\ gsmOn = "LOW"
        /\ FirstCycleNoResponse(log) => ResetsOf(log) # {}
        /\ ( /\ FirstCycleNoResponse(log)
             /\ Len(log) = 2 * TurnOnAttempts + 7
             /\ log[Len(log)].e = "read"
             /\ log[Len(log)].data = OKLine )
           => /\ pc = "done"
              /\ result = Bool(TRUE)
              /\ ready
              /\ Cardinality(ResetsOf(log)) = 1

C4_Witness ==
    /\ op = "turnOn"
    /\ pc = "done"
    /\ FirstCycleNoResponse(log)
    /\ Len(log) = 2 * TurnOnAttempts + 7
    /\ log[Len(log)].data = OKLine
    /\ Cardinality(ResetsOf(log)) = 1
    /\ result = Bool(TRUE)
    /\ ready

\* C5: the readiness of the session reflects the outcome of the last
\* handshake: a turnOn that returns True leaves the session ready, it returns
\* True exactly when its last exchange was ATResp.OK, and a turnOn that gave
\* up (both cycles failed) returns False and leaves the session not ready,
\* also after an earlier successful turnOn.
C5_ReadyReflectsLastHandshake ==
    /\ (op = "turnOn" /\ pc = "done") =>
          /\ (result = Bool(TRUE)) <=> (statuses[Len(statuses)] = RespOK)
          /\ result.val \in {"True", "False"}
    /\ handshake = "ok" => ready
    /\ handshake = "exhausted" => ~ready

\* the state of the session in the words of the specification
SessionState ==
    IF serial = "None" THEN "uninitialized"
    ELSE IF handshake = "exhausted" THEN "failed"
    ELSE IF handshake = "ok" THEN "ready"
    ELSE "attached"

\* the operations other than setup, reset and turnOn
GuardedOps == {"setEchoOff", "sendSMS"}

\* C6: operations other than setup, reset and turnOn write no command to the
\* transport while the session is uninitialized or failed.
C6_CommandsOnlyWhenReady ==
    (op \in GuardedOps /\ WritesOf(log) # {}) =>
        SessionState \notin {"uninitialized", "failed"}

\* the transport has answered every exchange of this sendSMS call as in the
\* success scenario: OK, then the prompt "> ", then "+CMGS" and "OK"
SMSScenario ==
    /\ Len(log) >= 2
    /\ log[2].data = OKLine
    /\ Len(log) >= 4
    /\ log[4].data = SpecTrim(Prompt)
    /\ Len(log) = 4 => lastLines = <<Prompt>>
    /\ Len(log) >= 6 => lastLines = << CMGSMarker \o <<CR, LF>>, OKLine \o <<CR, LF>> >>

\* C7: a sendSMS call whose exchanges were all answered as in the success
\* scenario returns True.
C7_SendSMSSuccess ==
    (op = "sendSMS" /\ Idle /\ SMSScenario) => (pc = "done" /\ result = Bool(TRUE))

\* C8: sendSMS runs its phases in order and stops at the first failing one:
\* AT+CMGS is written only after AT+CMGF=1 was answered by OK, the message
\* only after the exchange for AT+CMGS matched the prompt; a phase that
\* deviates ends the call there, returning False without a further write, and
\* the call raises nothing once an exchange has been made.
C8_SendSMSAbortsAtFirstFailure ==
    op = "sendSMS" =>
        /\ Len(log) <= 6
        /\ pc = "raised" => (log = <<>> /\ result = Value("AttributeError"))
        /\ pc = "done" => result.val \in {"True", "False"}
        /\ \A k \in 1..Len(log) : (log[k].e = "write") <=> (k % 2 = 1)
        /\ Len(log) >= 1 => WroteCmd(log[1], CMGF(TextFormat))
        /\ Len(log) >= 3 =>
              /\ WroteCmd(log[3], CMGS(arg.phoneNumber))
              /\ log[2].data = OKLine
              /\ statuses[1] = RespOK
        /\ Len(log) >= 5 =>
              /\ WroteCmd(log[5], SMSPayload(arg.msg))
              /\ statuses[2] = RespOK
        /\ (Len(log) >= 2 /\ log[2].data # OKLine) =>
              (pc = "done" /\ Len(log) = 2 /\ result = Bool(FALSE))
        /\ (Len(log) >= 4 /\ statuses[2] # RespOK) =>
              (pc = "done" /\ Len(log) = 4 /\ result = Bool(FALSE))
        /\ ( /\ Len(log) = 6
             /\ \/ SpecTerminal(lastLines) # OKLine
                \/ \A k \in 1..Len(lastLines) : SpecTrim(lastLines[k]) # CMGSMarker )
           => (pc = "done" /\ result = Bool(FALSE))

C8_Witness ==
    /\ op = "sendSMS"
    /\ pc = "done"
    /\ Len(log) = 4
    /\ log[2].data = OKLine
    /\ log[4].data = <<"E", "R", "R", "O", "R">>
    /\ result = Bool(FALSE)

\* C9: setEchoOff writes ATE0 exactly twice, whatever the first exchange
\* returns, and returns True exactly when the second exchange is answered by a
\* terminal line OK; the first answer has no effect on the returned value.
C9_EchoOffTwiceSecondCounts ==
    op = "setEchoOff" =>
        /\ Alternates(log, ATE0)
        /\ Len(log) <= 4
        /\ Len(log) = 2 => pc = "write"
        /\ pc = "done" =>
              /\ Len(log) = 4
              /\ Cardinality(WritesOf(log)) = 2
              /\ result.val \in {"True", "False"}
              /\ (result = Bool(TRUE)) <=> (log[4].data = OKLine)

C9_Witness ==
    /\ op = "setEchoOff"
    /\ pc = "done"
    /\ Len(log) = 4
    /\ log[2].data # OKLine
    /\ log[2].data # <<>>
    /\ log[4].data = OKLine
    /\ result = Bool(TRUE)

----------------------------------------------------------------------------
\* the exchange of a query saw a matching last line after exactly one other
\* non-blank line
MatchedWithOneLine(raw) ==
    LET nb == SpecNonBlank(raw) IN Len(nb) = 2 /\ nb[2] = OKLine

\* C11: a query built on getSingleResponse, and likewise getIMEI and
\* getSIMCCID, returns a value only when its exchange is Matched with exactly
\* one payload line; with no payload line, with two or more, with Mismatch or
\* NoResponse, it returns None, and the value of getIMEI / getSIMCCID is that
\* one line, never one of several.
C11_ValueOnlyFromOnePayloadLine ==
    (op \in QueryOps /\ Idle /\ log # <<>>) =>
        /\ ~MatchedWithOneLine(lastLines) => (pc = "done" /\ result = NoResult)
        /\ (op \in {"getIMEI", "getSIMCCID"} /\ result # NoResult) =>
              result = Str(SpecNonBlank(lastLines)[1])

C11_Witness ==
    /\ op = "getIMEI"
    /\ pc = "done"
    /\ lastLines = << Ended(<<"8", "6">>), Ended(<<"8", "6">>), Ended(OKLine) >>
    /\ result = NoResult

----------------------------------------------------------------------------
\* C12: no query (getLastError, getIMEI, getVersion, getSIMCCID,
\* getNetworkStatus, getRSSI, getTime) raises an exception, whatever the modem
\* answered: once its exchange has run, the query returns, with None for a
\* response it cannot parse.
C12_QueriesNeverRaise ==
    (op \in QueryOps /\ log # <<>>) => pc # "raised"

----------------------------------------------------------------------------
(* parseReply and RSSI.fromCSQ called on their own *)

MaxIndex == 2     \* largest index argument of a parseReply call
MaxCSQ == 100     \* largest csq argument of a fromCSQ call

ParseLines ==
    { CREGPrefix \o <<"0", ",", "1">>, CSQPrefix \o <<"3", "1", ",", "0">>,
      <<"A", "A", ",", "A">>, <<"A", ",", "B">>, <<"A">>, <<"B", ":", "A">>, <<>> }
ParsePrefixes == { CREGPrefix, CSQPrefix, <<"A">>, <<>> }
ParseDividers == { <<",">>, <<":">> }

ParseArgs ==
    [data : ParseLines, beginning : ParsePrefixes, divider : ParseDividers,
     index : (0 - 1)..MaxIndex]
CSQArgs == [csq : (0 - 1)..MaxCSQ]

InitPure ==
    /\ serial = "None"
    /\ ready = FALSE
    /\ gsmOn = "unset"
    /\ gsmReset = "unset"
    /\ \/ op = "parseReply" /\ arg \in ParseArgs
       \/ op = "fromCSQ" /\ arg \in CSQArgs
    /\ pc = "call"
    /\ phase = 0
    /\ cmd = <<>>
    /\ response = <<>>
    /\ attempts = 0
    /\ i = 0
    /\ kind = "resp"
    /\ result = NoResult
    /\ log = <<>>
    /\ statuses = <<>>
    /\ lastLines = <<>>
    /\ handshake = "none"
    /\ modemClock = NoClock
    /\ main = [mode |-> "lib", at |-> 0]
    /\ cleanups = 0

\* parseReply(data, beginning, divider, index), lines 145-156
ApplyParseReply ==
    /\ pc = "call"
    /\ op = "parseReply"
    /\ pc' = "done"
    /\ result' = LET r == ParseReply(arg.data, arg.beginning, arg.divider, arg.index)
                 IN IF r.ok THEN Str(r.data) ELSE NoResult
    /\ UNCHANGED <<serial, ready, gsmOn, gsmReset, op, arg, phase, cmd, response,
                   attempts, i, kind, log, statuses, lastLines, handshake,
                   modemClock, main, cleanups>>

\* RSSI.fromCSQ(csq) with an int argument, lines 40-47
ApplyFromCSQ ==
    /\ pc = "call"
    /\ op = "fromCSQ"
    /\ pc' = "done"
    /\ result' = FromCSQ(arg.csq)
    /\ UNCHANGED <<serial, ready, gsmOn, gsmReset, op, arg, phase, cmd, response,
                   attempts, i, kind, log, statuses, lastLines, handshake,
                   modemClock, main, cleanups>>

NextPure == ApplyParseReply \/ ApplyFromCSQ

SpecPure == InitPure /\ [][NextPure]_vars

\* C13: for every line, prefix, divider and index, parseReply returns None
\* unless the line starts with the prefix; otherwise it removes that leading
\* prefix only, splits the rest by the divider and returns the token at
\* position index, or None when index is not a position of the tokens (a
\* negative index is taken as a position counted from the end).
C13_ParseReplyField ==
    (op = "parseReply" /\ pc = "done") =>
        IF ~StartsWith(arg.data, arg.beginning) THEN result = NoResult
        ELSE LET rest == SubSeq(arg.data, Len(arg.beginning) + 1, Len(arg.data))
                 token == PyIndex(Split(rest, arg.divider), arg.index)
             IN IF token.ok THEN result = Str(token.item) ELSE result = NoResult

\* C14: fromCSQ maps 0 to OneBar, 1 to TwoBars, 2..30 to ThreeBars, 31 to
\* FourBars and 99 to ZeroBars, and returns no bucket for any other integer.
C14_FromCSQBuckets ==
    (op = "fromCSQ" /\ pc = "done") =>
        LET n == arg.csq IN
        /\ n = 0 => result = Value("OneBar")
        /\ n = 1 => result = Value("TwoBars")
        /\ n \in 2..30 => result = Value("ThreeBars")
        /\ n = 31 => result = Value("FourBars")
        /\ n = 99 => result = Value("ZeroBars")
        /\ n \notin (0..31 \cup {99}) =>
              result \notin { Value(b) : b \in {"OneBar", "TwoBars", "ThreeBars",
                                                "FourBars", "ZeroBars"} }

C14_Witness ==
    /\ op = "fromCSQ"
    /\ pc = "done"
    /\ arg.csq = 32
    /\ result = NoResult

----------------------------------------------------------------------------
\* a timestamp without its fraction of a second
Truncated(t) == [t EXCEPT ![7] = 0]

\* getTime has run after setTime(T) and the modem answered AT+CCLK? with the
\* text set by AT+CCLK=, then OK
ClockEchoed ==
    /\ op = "getTime"
    /\ Idle
    /\ modemClock.text # <<>>
    /\ lastLines = << Ended(CCLKPrefix \o modemClock.text), Ended(OKLine) >>

\* C15 as stated: for every timestamp T, setTime(T) then getTime() against a
\* modem that answers with the text last set returns T truncated to the
\* second.
C15_ClockRoundTrip ==
    ClockEchoed => (pc = "done" /\ result = DateTime(Truncated(modemClock.from)))

\* C15 amended: for every timestamp T of the years 1969..2068, setTime(T) then
\* getTime() against a modem that answers with the text last set returns T
\* truncated to the second.
C15_ClockRoundTripWithinCentury ==
    (ClockEchoed /\ modemClock.from[1] \in 1969..2068) =>
        (pc = "done" /\ result = DateTime(Truncated(modemClock.from)))

C15_Witness ==
    /\ ClockEchoed
    /\ modemClock.from = <<1969, 12, 31, 23, 59, 59, 999999>>
    /\ result = DateTime(<<1969, 12, 31, 23, 59, 59, 0>>)

----------------------------------------------------------------------------
(* The program of lines 298-315 and its exit *)

\* fault: the handler is not registered
AtExitHandlers_None == <<>>

\* line 57: @atexit.register puts cleanup on the list of exit handlers
AtExitHandlers == <<"cleanup">>

\* line 58: IO.cleanup() returns a channel that was set up to an input; a
\* channel never set up is left alone
Cleaned(level) == IF level = "unset" THEN level ELSE "INPUT"

InitMain ==
    /\ serial = "None"
    /\ ready = FALSE
    /\ gsmOn = "unset"
    /\ gsmReset = "unset"
    /\ op = "__init__"
    /\ arg = NoArg
    /\ pc = "done"
    /\ phase = 0
    /\ cmd = <<>>
    /\ response = <<>>
    /\ attempts = 0
    /\ i = 0
    /\ kind = "resp"
    /\ result = NoResult
    /\ log = <<>>
    /\ statuses = <<>>
    /\ lastLines = <<>>
    /\ handshake = "none"
    /\ modemClock = NoClock
    /\ main = [mode |-> "run", at |-> 0]
    /\ cleanups = 0

\* the interpreter ends: the exit handlers run, then the process goes and its
\* serial port with it
AtExit ==
    /\ main.mode = "run"
    /\ MainEnds
    /\ main' = [main EXCEPT !.mode = "exited"]
    /\ cleanups' = cleanups + Len(AtExitHandlers)
    /\ gsmOn' = IF AtExitHandlers = <<>> THEN gsmOn ELSE Cleaned(gsmOn)
    /\ gsmReset' = IF AtExitHandlers = <<>> THEN gsmReset ELSE Cleaned(gsmReset)
    /\ serial' = "Closed"
    /\ UNCHANGED <<ready, op, arg, pc, phase, cmd, response, attempts, i, kind,
                   result, log, statuses, lastLines, handshake, modemClock>>

NextMain ==
    \/ Setup
    \/ CallTurnOn
    \/ CallSetEchoOff
    \/ \E name \in QueryOps : CallQuery(name)
    \/ \E t \in Timestamps : CallSetTime(t)
    \/ \E n \in PhoneNumbers, m \in Messages : CallSendSMS(n, m)
    \/ ResetSleepDone
    \/ Write
    \/ \E raw \in ReadsFor(op, modemClock) : Read(raw)
    \/ AtExit

\* the program is one thread that always takes its next step: a read returns
\* at its timeout, a sleep ends
SpecMain == InitMain /\ [][NextMain]_vars /\ WF_vars(NextMain)

----------------------------------------------------------------------------
\* C17: when the modem answers AT+CMGS="<phoneNumber>" with the prompt "> "
\* as its last line, the exchange is classified ATResp.OK and sendSMS goes on
\* to write the message payload.
C17_PromptIsMatched ==
    (/\ op = "sendSMS"
     /\ Len(statuses) = 2
     /\ lastLines # <<>>
     /\ lastLines[Len(lastLines)] = Prompt) =>
        /\ statuses[2] = RespOK
        /\ pc = "write"
        /\ cmd = SMSPayload(arg.msg)

----------------------------------------------------------------------------
(* Sessions that call setup and turnOn only *)

NextTurnOn ==
    \/ Setup
    \/ CallTurnOn
    \/ ResetSleepDone
    \/ Write
    \/ \E raw \in ReadsFor(op, modemClock) : Read(raw)

\* a method that was called always takes its next step: a read returns at its
\* timeout, a sleep ends
SpecTurnOn == Init /\ [][NextTurnOn]_vars /\ WF_vars(NextTurnOn)

\* C18: every turnOn call ends; it makes at most 2 calls of the command
\* exchange and at most 10 writes, all of them "AT" and a carriage return, and
\* once an exchange has returned ATResp.OK the call is over: it writes nothing
\* more.
C18_TurnOnTerminates ==
    /\ [](op = "turnOn" =>
            /\ Len(statuses) <= 2
            /\ Cardinality(WritesOf(log)) <= 10
            /\ \A k \in WritesOf(log) : log[k].data = AT \o <<CR>>
            /\ (\E k \in 1..Len(statuses) : statuses[k] = RespOK) =>
                  (pc = "done" /\ statuses[Len(statuses)] = RespOK))
    /\ [](op = "turnOn" => <>Idle)

C18_Witness ==
    /\ op = "turnOn"
    /\ pc = "done"
    /\ Len(statuses) = 2
    /\ Cardinality(WritesOf(log)) = 10
    /\ result = Bool(FALSE)

----------------------------------------------------------------------------
\* the text of the exchange in progress is a message payload of line 290
PayloadCmd == \E m \in Messages : cmd = SMSPayload(m)

\* the bytes of the write just made
Written == log[Len(log)].data

----------------------------------------------------------------------------
\* the events of the reset at position k of the log: high, the pulse wait,
\* low, the boot wait
ResetPulse(lg, k) ==
    /\ lg[k] = Ev("high", <<>>, 0)
    /\ lg[k + 1] = Ev("sleep", <<>>, 12)
    /\ Len(lg) >= k + 2 =>
          /\ Len(lg) >= k + 3
          /\ lg[k + 2] = Ev("low", <<>>, 0)
          /\ lg[k + 3] = Ev("sleep", <<>>, 50)

\* C20: after setup the power-toggle line is high only inside reset(),
\* between its set-high and its set-low: it is low whenever a method has
\* returned or raised and whenever a command is written or a response read;
\* each reset is one high-then-low pulse followed by the boot wait; the reset
\* line is never driven high.
C20_PowerLineHighOnlyInReset ==
    /\ gsmReset # "HIGH"
    /\ gsmOn = "HIGH" <=> pc = "rstSleep"
    /\ (serial = "Open" /\ pc # "rstSleep") => gsmOn = "LOW"
    /\ \A k \in 1..Len(log) :
          /\ log[k].e = "reset" => (Len(log) > k /\ log[k + 1].e = "high")
          /\ log[k].e = "high" => ResetPulse(log, k)
          /\ log[k].e = "low" => (k > 2 /\ log[k - 2].e = "high")
    /\ pc = "rstSleep" => log[Len(log) - 1].e = "high"

C20_Witness ==
    /\ op = "turnOn"
    /\ pc = "done"
    /\ gsmOn = "LOW"
    /\ \E k \in 1..Len(log) : log[k].e = "low"

====
